---- MODULE Spec2Model ----
(***************************************************************************)
(* Background multi-clip job tracking of wellsaid_mcp/tts.py:              *)
(* create_multiple_clips_and_combine (submit), get_tts_status (query) and  *)
(* the coroutine create_multiple_clips_and_combine_in_background.          *)
(*                                                                         *)
(* Everything runs on one asyncio event loop.  A coroutine gives up the    *)
(* loop only at an `await`; client.post, client.get, time.sleep and the    *)
(* file write are blocking calls.  The program counter of each background  *)
(* coroutine is therefore either a suspended one (AwaitPcs) or a running   *)
(* one (RunningPcs), and while one coroutine is running no other handler   *)
(* or coroutine takes a step.                                              *)
(*                                                                         *)
(* The remote API and the host context are the environment: every response *)
(* and every notification outcome is a nondeterministic choice.  Transport *)
(* exceptions of httpx and file-system exceptions are not modelled.        *)
(***************************************************************************)
EXTENDS Integers, Sequences, FiniteSets, TLC

\* ---------------------------------------------------------------- bounds
\* jobs submitted in SpecJobs
MaxJobs == 2
\* longest clip_ids list POST /clips returns in Spec
MaxClips == 3
\* longest gaps list a caller passes in Spec
MaxGaps == 2

\* ------------------------------------------------------ program constants
\* variant: range(21), one query too many
PollBudget_more == 20 + 1

\* for _ in range(20)
PollBudget == 20
HTTP_OK == 200

STARTED == "started"
PROCESSING == "processing"
WAITING == "waiting"
ERROR == "error"
SUCCESS == "success"
TaskStatus == {STARTED, PROCESSING, WAITING, ERROR, SUCCESS}

AUDIO_MPEG == "audio/mpeg"

\* ------------------------------------------------------------ input sets
\* secrets.token_hex(8) values, one more than the jobs ever submitted
Tokens == 1 .. (MaxJobs + 1)
\* pause durations used in gap lists
GapValues == {1}
\* status codes of a response: 200 and one other
StatusCodes == {HTTP_OK, 202}
\* Content-Type headers of the combine response
MimeTypes == {AUDIO_MPEG, "text/plain"}
\* status field of GET /clips/{id}
ClipStatuses == {"COMPLETE", "PROCESSING"}
\* path produced by make_output_file
OutputFiles == {"out.mp3"}

\* clip_ids lists the remote API returns: identifiers in ascending order,
\* in descending order, or one identifier repeated
ClipIdSeqsOfLen(n) ==
    {[i \in 1 .. n |-> i], [i \in 1 .. n |-> n + 1 - i], [i \in 1 .. n |-> 1]}
ClipIdSeqs == UNION {ClipIdSeqsOfLen(n) : n \in 0 .. MaxClips}

\* gaps: list[float] = None
NoneGaps == [given |-> FALSE, list |-> <<>>]
GapArgs == {NoneGaps} \cup
           {[given |-> TRUE, list |-> [i \in 1 .. n |-> v]] : n \in 0 .. MaxGaps, v \in GapValues}

\* responses of POST /clips: a 200 body carries clip_ids, another body may not
ClipsResponses ==
    {[status_code |-> c, has_clip_ids |-> TRUE, clip_ids |-> ids] :
        c \in StatusCodes, ids \in ClipIdSeqs}
    \cup {[status_code |-> c, has_clip_ids |-> FALSE, clip_ids |-> <<>>] :
        c \in StatusCodes \ {HTTP_OK}}

\* the inputs of SpecJobs: no gaps, at most one clip per job
GapArgsJobs == {NoneGaps}
ClipsResponsesJobs == {r \in ClipsResponses : Len(r.clip_ids) <= 1}

VARIABLES
    registry,        \* _task_registry: job_id -> TtsTask
    pc,              \* job_id -> position of the background coroutine
    gaps,            \* job_id -> the gaps argument of the coroutine
    clip_ids,        \* job_id -> clip_ids of the POST /clips response
    clip_idx,        \* job_id -> position of `for clip_id in clip_ids`
    attempt,         \* job_id -> GETs issued by the current `for _ in range(20)`
    clip_ready,      \* job_id -> clip_ready
    check,           \* job_id -> last GET /clips/{clip_id} response of the
                     \* current poll loop, NoCheck outside of it
    completed_clips, \* job_id -> completed_clips
    returned,        \* job_id -> the handle create_multiple_clips_and_combine returned
    queryResult,     \* <<[job_id, result, known]>> when the last step was a
                     \* get_tts_status call, <<>> otherwise
    posts,           \* job_id -> number of POST /clips requests
    polled,          \* job_id -> clip ids whose poll loop was entered, in order
    combines,        \* job_id -> payloads of the POST /clips/combine requests
    files,           \* job_id -> output files written
    progress,        \* job_id -> report_progress calls <<completed, total>>
    failed           \* job_id -> failures hit so far

vars == <<registry, pc, gaps, clip_ids, clip_idx, attempt, clip_ready, check,
          completed_clips, returned, queryResult, posts, polled, combines,
          files, progress, failed>>

locals == <<gaps, clip_ids, clip_idx, attempt, clip_ready, check, completed_clips>>
history == <<posts, polled, combines, files, progress, failed>>

AwaitPcs == {"scheduled", "await_info_submitting", "await_info_submitted",
             "await_progress", "await_info_completed", "done", "crashed"}
RunningPcs == {"for", "poll", "after_poll", "combine", "persist"}

Jobs == DOMAIN registry

\* no coroutine holds the event loop
Idle == \A j \in DOMAIN pc : pc[j] \in AwaitPcs

\* ------------------------------------------------------------- messages
MSG_STARTED == "Task started"
MSG_NOT_FOUND == "Task not found"
MSG_NOT_READY == "Clips did not finish processing in time"
MSG_BAD_TYPE == "Bad result type on combining clips"
\* f"Failed to create clips : {create_clips_response.content}"
MsgCreateFailed(content) == "Failed to create clips : " \o content
\* variant: the message does not name the file
MsgSaved_nopath(output_file) == "Saved file"

\* f"Saved file to {output_file}"
MsgSaved(output_file) == "Saved file to " \o output_file
\* body of a non-200 POST /clips response
ErrorContent == "detail"

\* ------------------------------------------------------ pure operations
\* variant: the task is created already in PROCESSING
NewTask_processing(job_id) ==
    [job_id |-> job_id, status |-> PROCESSING, message |-> MSG_STARTED]

\* TtsTask(job_id=job_id, status=TaskStatus.STARTED, message="Task started")
NewTask(job_id) == [job_id |-> job_id, status |-> STARTED, message |-> MSG_STARTED]

\* variant: the registry is rebound to a dict holding only the new task
RegistryInsert_rebind(reg, task) == [k \in {task.job_id} |-> task]

\* _task_registry[job_id] = task
RegistryInsert(reg, task) ==
    [k \in DOMAIN reg \cup {task.job_id} |-> IF k = task.job_id THEN task ELSE reg[k]]

\* variant: _task_registry.setdefault(job_id, <new started task>)
get_tts_status_setdefault(reg, job_id) ==
    IF job_id \notin DOMAIN reg
    THEN [result |-> [job_id |-> job_id, status |-> STARTED, message |-> MSG_STARTED],
          registry |-> [k \in DOMAIN reg \cup {job_id} |->
                          IF k = job_id
                          THEN [job_id |-> job_id, status |-> STARTED, message |-> MSG_STARTED]
                          ELSE reg[k]]]
    ELSE [result |-> reg[job_id], registry |-> reg]

\* get_tts_status: the value returned and the registry the call leaves
get_tts_status(reg, job_id) ==
    IF job_id \notin DOMAIN reg
    THEN [result |-> [job_id |-> job_id, status |-> ERROR, message |-> MSG_NOT_FOUND],
          registry |-> reg]
    ELSE [result |-> reg[job_id], registry |-> reg]

\* variant: every job shares one task object, the write shows in all entries
SetStatus_shared(reg, j, status, message) ==
    [k \in DOMAIN reg |-> [reg[k] EXCEPT !.status = status, !.message = message]]

\* variant: only the status is written, the message is left as it was
SetStatus_statusOnly(reg, j, status, message) ==
    [reg EXCEPT ![j].status = status]

\* task.status = status ; task.message = message
SetStatus(reg, j, status, message) ==
    [reg EXCEPT ![j].status = status, ![j].message = message]

\* variant: the gaps argument is dropped from the payload
CombinePayload_nogaps(ids, g) == [clip_ids |-> ids, pause_durations |-> NoneGaps]

\* variant: the identifiers are sent in reverse order
CombinePayload_reversed(ids, g) ==
    [clip_ids |-> [i \in 1 .. Len(ids) |-> ids[Len(ids) + 1 - i]], pause_durations |-> g]

\* json={"clip_ids": clip_ids, "pause_durations": gaps}
CombinePayload(ids, g) == [clip_ids |-> ids, pause_durations |-> g]

\* no response of GET /clips/{clip_id} held
NoCheck == [status_code |-> 0, status |-> ""]

\* variant: progress is reported before completed_clips is incremented
ProgressNote_stale(completed, total) == <<completed, total>>

\* completed_clips += 1 ; report_progress(completed_clips, total_clips, ...)
ProgressNote(completed, total) == <<completed + 1, total>>

\* extend a per-job function with a new job
Ext(f, j, v) == [k \in DOMAIN f \cup {j} |-> IF k = j THEN v ELSE f[k]]

\* ----------------------------------------------------------------- Init
Init ==
    /\ registry = <<>>
    /\ pc = <<>>
    /\ gaps = <<>>
    /\ clip_ids = <<>>
    /\ clip_idx = <<>>
    /\ attempt = <<>>
    /\ check = <<>>
    /\ clip_ready = <<>>
    /\ completed_clips = <<>>
    /\ returned = <<>>
    /\ queryResult = <<>>
    /\ posts = <<>>
    /\ polled = <<>>
    /\ combines = <<>>
    /\ files = <<>>
    /\ progress = <<>>
    /\ failed = <<>>

\* -------------------------------------------------------------- actions
\* secrets.token_hex(8): a token no earlier job got (64 random bits, taken
\* as fresh; tokens are opaque, so the least unused one stands for any)
FreshToken == Cardinality(Jobs) + 1

\* create_multiple_clips_and_combine: no await, so the whole tool call is
\* one step; asyncio.create_task only schedules the coroutine.
Submit(job_id, g) ==
    /\ Idle
    /\ job_id = FreshToken
    /\ registry' = RegistryInsert(registry, NewTask(job_id))
    /\ pc' = Ext(pc, job_id, "scheduled")
    /\ gaps' = Ext(gaps, job_id, g)
    /\ clip_ids' = Ext(clip_ids, job_id, <<>>)
    /\ clip_idx' = Ext(clip_idx, job_id, 0)
    /\ attempt' = Ext(attempt, job_id, 0)
    /\ check' = Ext(check, job_id, NoCheck)
    /\ clip_ready' = Ext(clip_ready, job_id, FALSE)
    /\ completed_clips' = Ext(completed_clips, job_id, 0)
    /\ returned' = Ext(returned, job_id, NewTask(job_id))
    /\ posts' = Ext(posts, job_id, 0)
    /\ polled' = Ext(polled, job_id, <<>>)
    /\ combines' = Ext(combines, job_id, <<>>)
    /\ files' = Ext(files, job_id, <<>>)
    /\ progress' = Ext(progress, job_id, <<>>)
    /\ failed' = Ext(failed, job_id, {})
    /\ queryResult' = <<>>

\* get_tts_status tool call
GetStatus(job_id) ==
    /\ Idle
    /\ LET r == get_tts_status(registry, job_id)
       IN /\ registry' = r.registry
          /\ queryResult' = <<[job_id |-> job_id, result |-> r.result,
                               known |-> job_id \in DOMAIN returned]>>
    /\ UNCHANGED <<pc, locals, returned, history>>

\* lines 251-254: task.status = PROCESSING, then await context.info(...)
Begin(j) ==
    /\ Idle
    /\ pc[j] = "scheduled"
    /\ registry' = [registry EXCEPT ![j].status = PROCESSING]
    /\ pc' = [pc EXCEPT ![j] = "await_info_submitting"]
    /\ queryResult' = <<>>
    /\ UNCHANGED <<locals, returned, history>>

\* an awaited context.info / context.report_progress raises: the coroutine
\* has no handler, the asyncio task ends with the exception
NotifyFail(j) ==
    /\ Idle
    /\ pc[j] \in {"await_info_submitting", "await_info_submitted",
                  "await_progress", "await_info_completed"}
    /\ pc' = [pc EXCEPT ![j] = "crashed"]
    /\ queryResult' = <<>>
    /\ UNCHANGED <<registry, locals, returned, history>>

\* lines 255-265: POST /clips, status check, json()["clip_ids"], await info
PostClips(j, r) ==
    /\ Idle
    /\ pc[j] = "await_info_submitting"
    /\ posts' = [posts EXCEPT ![j] = @ + 1]
    /\ IF r.status_code # HTTP_OK
       THEN /\ registry' = SetStatus(registry, j, ERROR, MsgCreateFailed(ErrorContent))
            /\ failed' = [failed EXCEPT ![j] = @ \cup {"create"}]
       ELSE UNCHANGED <<registry, failed>>
    /\ IF r.has_clip_ids
       THEN /\ clip_ids' = [clip_ids EXCEPT ![j] = r.clip_ids]
            /\ pc' = [pc EXCEPT ![j] = "await_info_submitted"]
       ELSE \* KeyError on ["clip_ids"]
            /\ pc' = [pc EXCEPT ![j] = "crashed"]
            /\ UNCHANGED clip_ids
    /\ queryResult' = <<>>
    /\ UNCHANGED <<gaps, clip_idx, attempt, clip_ready, check, completed_clips,
                   returned, polled, combines, files, progress>>

\* lines 267-268: total_clips, completed_clips = 0, enter the for loop
StartLoop(j) ==
    /\ Idle
    /\ pc[j] = "await_info_submitted"
    /\ completed_clips' = [completed_clips EXCEPT ![j] = 0]
    /\ clip_idx' = [clip_idx EXCEPT ![j] = 0]
    /\ pc' = [pc EXCEPT ![j] = "for"]
    /\ queryResult' = <<>>
    /\ UNCHANGED <<registry, gaps, clip_ids, attempt, clip_ready, check, returned,
                   history>>

\* lines 269-271: next clip_id of the for loop, or fall through to combine
ForNext(j) ==
    /\ pc[j] = "for"
    /\ IF clip_idx[j] < Len(clip_ids[j])
       THEN /\ clip_idx' = [clip_idx EXCEPT ![j] = @ + 1]
            /\ clip_ready' = [clip_ready EXCEPT ![j] = FALSE]
            /\ attempt' = [attempt EXCEPT ![j] = 0]
            /\ polled' = [polled EXCEPT ![j] = Append(@, clip_ids[j][clip_idx[j] + 1])]
            /\ pc' = [pc EXCEPT ![j] = "poll"]
       ELSE /\ pc' = [pc EXCEPT ![j] = "combine"]
            /\ UNCHANGED <<clip_idx, clip_ready, attempt, polled>>
    /\ UNCHANGED <<registry, gaps, clip_ids, check, completed_clips, returned,
                   queryResult, posts, combines, files, progress, failed>>

\* lines 272-280: one pass of `for _ in range(20)`: GET /clips/{clip_id}
Poll(j, code, status) ==
    /\ pc[j] = "poll"
    /\ attempt[j] < PollBudget
    /\ attempt' = [attempt EXCEPT ![j] = @ + 1]
    /\ check' = [check EXCEPT ![j] = [status_code |-> code, status |-> status]]
    /\ IF code # HTTP_OK
       THEN /\ pc' = [pc EXCEPT ![j] = "after_poll"]
            /\ UNCHANGED clip_ready
       ELSE IF status = "COMPLETE"
       THEN /\ clip_ready' = [clip_ready EXCEPT ![j] = TRUE]
            /\ pc' = [pc EXCEPT ![j] = "after_poll"]
       ELSE \* time.sleep(3), then the next pass or the end of the range
            /\ pc' = [pc EXCEPT ![j] =
                        IF attempt[j] + 1 = PollBudget THEN "after_poll" ELSE "poll"]
            /\ UNCHANGED clip_ready
    /\ UNCHANGED <<registry, gaps, clip_ids, clip_idx, completed_clips,
                   returned, queryResult, history>>

\* lines 281-288; the loop variable `_` and `check` are dead from here on
AfterPoll(j) ==
    /\ pc[j] = "after_poll"
    /\ attempt' = [attempt EXCEPT ![j] = 0]
    /\ check' = [check EXCEPT ![j] = NoCheck]
    /\ IF clip_ready[j]
       THEN /\ completed_clips' = [completed_clips EXCEPT ![j] = @ + 1]
            /\ progress' = [progress EXCEPT
                              ![j] = Append(@, ProgressNote(completed_clips[j],
                                                            Len(clip_ids[j])))]
            /\ pc' = [pc EXCEPT ![j] = "await_progress"]
            /\ UNCHANGED <<registry, failed>>
       ELSE /\ registry' = SetStatus(registry, j, ERROR, MSG_NOT_READY)
            /\ failed' = [failed EXCEPT ![j] = @ \cup {"not_ready"}]
            /\ pc' = [pc EXCEPT ![j] = "for"]
            /\ UNCHANGED <<completed_clips, progress>>
    /\ UNCHANGED <<gaps, clip_ids, clip_idx, clip_ready, returned,
                   queryResult, posts, polled, combines, files>>

\* line 283 returns, line 284 awaits context.info
ResumeProgress(j) ==
    /\ Idle
    /\ pc[j] = "await_progress"
    /\ pc' = [pc EXCEPT ![j] = "await_info_completed"]
    /\ queryResult' = <<>>
    /\ UNCHANGED <<registry, locals, returned, history>>

\* line 284 returns, back to the loop head
ResumeInfo(j) ==
    /\ Idle
    /\ pc[j] = "await_info_completed"
    /\ pc' = [pc EXCEPT ![j] = "for"]
    /\ queryResult' = <<>>
    /\ UNCHANGED <<registry, locals, returned, history>>

\* lines 292-304: POST /clips/combine and the Content-Type check
Combine(j, mimeType) ==
    /\ pc[j] = "combine"
    /\ combines' = [combines EXCEPT ![j] = Append(@, CombinePayload(clip_ids[j], gaps[j]))]
    /\ IF mimeType # AUDIO_MPEG
       THEN /\ registry' = SetStatus(registry, j, ERROR, MSG_BAD_TYPE)
            /\ failed' = [failed EXCEPT ![j] = @ \cup {"bad_type"}]
       ELSE UNCHANGED <<registry, failed>>
    /\ pc' = [pc EXCEPT ![j] = "persist"]
    /\ UNCHANGED <<locals, returned, queryResult, posts, polled, files, progress>>

\* lines 307-314: write the file, status SUCCESS
Persist(j, output_file) ==
    /\ pc[j] = "persist"
    /\ files' = [files EXCEPT ![j] = Append(@, output_file)]
    /\ registry' = SetStatus(registry, j, SUCCESS, MsgSaved(output_file))
    /\ pc' = [pc EXCEPT ![j] = "done"]
    /\ UNCHANGED <<locals, returned, queryResult, posts, polled, combines,
                   progress, failed>>

\* submit while no job exists yet / while fewer than MaxJobs jobs exist
SubmitOne(job_id, g) == Jobs = {} /\ Submit(job_id, g)
SubmitJob(job_id, g) == Cardinality(Jobs) < MaxJobs /\ Submit(job_id, g)

\* one job, every input
Next ==
    \/ \E job_id \in Tokens, g \in GapArgs : SubmitOne(job_id, g)
    \/ \E job_id \in Tokens : GetStatus(job_id)
    \/ \E j \in Jobs : Begin(j)
    \/ \E j \in Jobs : NotifyFail(j)
    \/ \E j \in Jobs, r \in ClipsResponses : PostClips(j, r)
    \/ \E j \in Jobs : StartLoop(j)
    \/ \E j \in Jobs : ForNext(j)
    \/ \E j \in Jobs, code \in StatusCodes, status \in ClipStatuses : Poll(j, code, status)
    \/ \E j \in Jobs : AfterPoll(j)
    \/ \E j \in Jobs : ResumeProgress(j)
    \/ \E j \in Jobs : ResumeInfo(j)
    \/ \E j \in Jobs, mimeType \in MimeTypes : Combine(j, mimeType)
    \/ \E j \in Jobs, output_file \in OutputFiles : Persist(j, output_file)

Spec == Init /\ [][Next]_vars

\* MaxJobs jobs in flight, the narrow inputs
NextJobs ==
    \/ \E job_id \in Tokens, g \in GapArgsJobs : SubmitJob(job_id, g)
    \/ \E job_id \in Tokens : GetStatus(job_id)
    \/ \E j \in Jobs : Begin(j)
    \/ \E j \in Jobs : NotifyFail(j)
    \/ \E j \in Jobs, r \in ClipsResponsesJobs : PostClips(j, r)
    \/ \E j \in Jobs : StartLoop(j)
    \/ \E j \in Jobs : ForNext(j)
    \/ \E j \in Jobs, code \in StatusCodes, status \in ClipStatuses : Poll(j, code, status)
    \/ \E j \in Jobs : AfterPoll(j)
    \/ \E j \in Jobs : ResumeProgress(j)
    \/ \E j \in Jobs : ResumeInfo(j)
    \/ \E j \in Jobs, mimeType \in MimeTypes : Combine(j, mimeType)
    \/ \E j \in Jobs, output_file \in OutputFiles : Persist(j, output_file)

SpecJobs == Init /\ [][NextJobs]_vars

TypeOK ==
    /\ \A j \in Jobs : registry[j].status \in TaskStatus /\ pc[j] \in AwaitPcs \cup RunningPcs
    /\ Cardinality({j \in Jobs : pc[j] \in RunningPcs}) <= 1

\* ---------------------------------------------------------------- claims
Finished(j) == pc[j] \in {"done", "crashed"}
StartedOrLater == {STARTED, PROCESSING, ERROR, SUCCESS}

\* C1: every job_id a submit returned stays in the registry under its own
\* id with status started or later, no step removes an entry and a later
\* submit leaves the existing entries as they are; a get_tts_status call for
\* such a job_id returns the registry entry, never "Task not found".
C1_ReturnedJobStaysRegistered ==
    [][/\ \A j \in DOMAIN returned' :
            /\ j \in DOMAIN registry'
            /\ registry'[j].job_id = j
            /\ registry'[j].status \in StartedOrLater
       /\ \A j \in DOMAIN registry :
            /\ j \in DOMAIN registry'
            /\ DOMAIN returned' # DOMAIN returned => registry'[j] = registry[j]
       /\ (queryResult' # <<>> /\ queryResult'[1].job_id \in DOMAIN returned) =>
            /\ queryResult'[1].result = registry[queryResult'[1].job_id]
            /\ queryResult'[1].result.status \in StartedOrLater
            /\ queryResult'[1].result.message # MSG_NOT_FOUND]_vars

\* a query for the first job answered after a second job was submitted and
\* the first one finished
C1_Witness ==
    /\ queryResult # <<>>
    /\ queryResult[1].known
    /\ Cardinality(DOMAIN returned) >= 2
    /\ Finished(queryResult[1].job_id)

\* C2: a get_tts_status call for a job_id no submit returned yields status
\* error with message "Task not found" and leaves the registry as it was.
C2_UnknownJobNotFound ==
    [][(queryResult' # <<>> /\ ~queryResult'[1].known) =>
          /\ queryResult'[1].result =
                [job_id |-> queryResult'[1].job_id, status |-> ERROR,
                 message |-> MSG_NOT_FOUND]
          /\ registry' = registry]_vars

\* an unknown id queried while a job is registered
C2_Witness ==
    /\ queryResult # <<>>
    /\ ~queryResult[1].known
    /\ queryResult[1].result.message = MSG_NOT_FOUND
    /\ Jobs # {}

\* C3: when create_multiple_clips_and_combine returns, the handle and the
\* registry entry have status started and no /clips, /clips/{id} or
\* /clips/combine request of that job has been issued; this stays so until
\* the coroutine takes its first step.
C3_SubmitReturnsBeforeOrchestration ==
    /\ [][\A j \in DOMAIN returned' \ DOMAIN returned :
            /\ returned'[j].job_id = j
            /\ returned'[j].status = STARTED
            /\ registry'[j] = returned'[j]
            /\ posts'[j] = 0 /\ polled'[j] = <<>> /\ combines'[j] = <<>>
            /\ files'[j] = <<>>]_vars
    /\ [](\A j \in Jobs : pc[j] = "scheduled" =>
            /\ registry[j].status = STARTED
            /\ posts[j] = 0 /\ polled[j] = <<>> /\ combines[j] = <<>>)

\* a job just submitted, not begun, while an earlier job has issued requests
C3_Witness ==
    \E j, k \in Jobs :
        /\ pc[j] = "scheduled"
        /\ returned[j].status = STARTED
        /\ posts[k] > 0

\* C4: once the coroutine of a job that hit a failure has finished, the
\* job's status is error with the message of a failure, never success.
C4_FailureEndsInError ==
    \A j \in Jobs :
        (Finished(j) /\ failed[j] # {}) =>
            /\ registry[j].status = ERROR
            /\ registry[j].message \in
                 {MsgCreateFailed(ErrorContent), MSG_NOT_READY, MSG_BAD_TYPE}

\* C5: after a non-200 response to POST /clips the job is in error with the
\* message of that failure and no later step has run: no clip polled, no
\* combine request, no file written.
C5_CreateFailureStops ==
    \A j \in Jobs :
        "create" \in failed[j] =>
            /\ registry[j].status = ERROR
            /\ registry[j].message = MsgCreateFailed(ErrorContent)
            /\ polled[j] = <<>>
            /\ combines[j] = <<>>
            /\ files[j] = <<>>

\* C6: after a clip failed to become ready no later clip is polled (every
\* polled clip but the last was ready) and no combine request is issued.
C6_NotReadyStops ==
    \A j \in Jobs :
        /\ Len(polled[j]) <= Len(progress[j]) + 1
        /\ "not_ready" \in failed[j] => combines[j] = <<>>

\* C7: an output file is written only for a job that hit no failure.
C7_FileOnlyWithoutFailure ==
    \A j \in Jobs : files[j] # <<>> => failed[j] = {}

\* C8: a status changes only started -> processing, processing -> success,
\* processing -> error, and an entry in success or error never changes.
C8_TerminalStatusesStay ==
    [][\A j \in Jobs :
          /\ registry[j].status \in {SUCCESS, ERROR} => registry'[j] = registry[j]
          /\ registry'[j].status # registry[j].status =>
                <<registry[j].status, registry'[j].status>> \in
                    {<<STARTED, PROCESSING>>, <<PROCESSING, SUCCESS>>,
                     <<PROCESSING, ERROR>>}]_vars

\* C9: the clips polled so far are, in order, the first clip_ids of the
\* POST /clips response, one poll loop per position, and every combine
\* request carries exactly the returned clip_ids sequence.
C9_PollAndCombineInOrder ==
    \A j \in Jobs :
        /\ Len(polled[j]) <= Len(clip_ids[j])
        /\ Len(polled[j]) = clip_idx[j]
        /\ \A i \in 1 .. Len(polled[j]) : polled[j][i] = clip_ids[j][i]
        /\ \A k \in 1 .. Len(combines[j]) :
              /\ combines[j][k].clip_ids = clip_ids[j]
              /\ Len(polled[j]) = Len(clip_ids[j])

\* a combine request sent for a list whose first two identifiers differ and
\* descend
C9_Witness ==
    \E j \in Jobs :
        /\ combines[j] # <<>>
        /\ Len(clip_ids[j]) >= 2
        /\ clip_ids[j][1] > clip_ids[j][2]
        /\ polled[j] = clip_ids[j]

\* C10: every combine request carries a pause_durations list of length 0,
\* 1 or n-1 for its n clip identifiers (None counts as no gaps).
C10_GapsLengthValidated ==
    \A j \in Jobs :
        \A k \in 1 .. Len(combines[j]) :
            Len(combines[j][k].pause_durations.list) \in
                {0, 1, Len(combines[j][k].clip_ids) - 1}

\* C11 (as stated): a combine request for n > 2 clips and a one-element
\* gaps list carries that gap once per adjacent pair, n-1 times (looked at
\* on jobs that hit no failure).
C11_SingleGapPerPair ==
    \A j \in Jobs :
        \A k \in 1 .. Len(combines[j]) :
            (/\ gaps[j].given /\ Len(gaps[j].list) = 1
             /\ Len(combines[j][k].clip_ids) > 2
             /\ failed[j] = {}) =>
                /\ Len(combines[j][k].pause_durations.list) =
                      Len(combines[j][k].clip_ids) - 1
                /\ \A i \in 1 .. Len(combines[j][k].pause_durations.list) :
                      combines[j][k].pause_durations.list[i] = gaps[j].list[1]

\* C11 (amended): every combine request carries the gaps argument as it was
\* passed to the tool, so a one-element list is sent as one element.
C11_GapsForwardedUnchanged ==
    \A j \in Jobs :
        \A k \in 1 .. Len(combines[j]) :
            combines[j][k].pause_durations = gaps[j]

\* a combine request for three clips with a one-element gaps list
C11_Witness ==
    \E j \in Jobs :
        /\ combines[j] # <<>>
        /\ Len(combines[j][1].clip_ids) = 3
        /\ gaps[j].given
        /\ Len(gaps[j].list) = 1
        /\ Len(combines[j][1].pause_durations.list) = 1

\* C12: the k-th progress notification of a job with n clip identifiers is
\* (k, n); there are as many notifications as clips counted ready, never
\* more than n; a notification is emitted only in a step whose poll loop
\* ended with a 200 COMPLETE response; once the loop over the clips has
\* ended with every clip ready the notifications are (1, n) .. (n, n).
C12_ProgressCountsReadyClips ==
    /\ [](\A j \in Jobs :
            /\ Len(progress[j]) = completed_clips[j]
            /\ Len(progress[j]) <= Len(clip_ids[j])
            /\ Len(progress[j]) <= Len(polled[j])
            /\ \A k \in 1 .. Len(progress[j]) : progress[j][k] = <<k, Len(clip_ids[j])>>
            /\ (pc[j] \in {"combine", "persist", "done"} /\ "not_ready" \notin failed[j]) =>
                  Len(progress[j]) = Len(clip_ids[j]))
    /\ [][\A j \in Jobs :
            progress'[j] # progress[j] =>
                /\ clip_ready[j]
                /\ check[j].status_code = HTTP_OK
                /\ check[j].status = "COMPLETE"
                /\ Len(progress'[j]) = Len(progress[j]) + 1]_vars

\* three clips, all ready: the job is done after (1,3), (2,3), (3,3)
C12_Witness ==
    \E j \in Jobs :
        /\ pc[j] = "done"
        /\ failed[j] = {}
        /\ progress[j] = <<<<1, 3>>, <<2, 3>>, <<3, 3>>>>

\* C13: a finished job whose POST /clips returned 200, whose clips all
\* reported COMPLETE and whose combine response was audio/mpeg has status
\* success, a message naming the file written, and issued exactly one
\* POST /clips, one POST /clips/combine and one file write.
C13_HappyPathSucceeds ==
    \A j \in Jobs :
        (Finished(j) /\ combines[j] # <<>> /\ failed[j] = {}) =>
            /\ registry[j].status = SUCCESS
            /\ Len(files[j]) = 1
            /\ registry[j].message = "Saved file to " \o files[j][1]
            /\ posts[j] = 1
            /\ Len(combines[j]) = 1
            /\ Len(progress[j]) = Len(clip_ids[j])

\* a job of two clips that went through without a failure
C13_Witness ==
    \E j \in Jobs :
        /\ pc[j] = "done"
        /\ failed[j] = {}
        /\ Len(clip_ids[j]) = 2
        /\ registry[j].status = SUCCESS

\* C14: while a job's coroutine is between two poll attempts of a clip, a
\* get_tts_status call can be served (the coroutine has given up the loop).
C14_QueryServedBetweenPolls ==
    \A j \in Jobs :
        (pc[j] = "poll" /\ attempt[j] >= 1) =>
            ENABLED (\E job_id \in Tokens : GetStatus(job_id))

\* C15: a job whose coroutine has ended, normally or because an awaited
\* notification raised, is in a terminal status (success or error); it is
\* never left in started or processing.
C15_EndedJobIsTerminal ==
    \A j \in Jobs : Finished(j) => registry[j].status \in {SUCCESS, ERROR}

\* C16: a poll loop issues at most 20 queries, one per pass; it goes on only
\* after a 200 response that is not COMPLETE and only below 20 queries; it
\* ends ready exactly on a 200 COMPLETE response and ends not ready on a
\* non-200 response or after the 20th query; a clip is counted ready only
\* when the last query of its loop returned COMPLETE.
C16_PollLoopBounded ==
    /\ [](\A j \in Jobs :
            /\ attempt[j] <= 20
            /\ pc[j] = "poll" =>
                  /\ attempt[j] < 20
                  /\ ~clip_ready[j]
                  /\ attempt[j] >= 1 =>
                        (check[j].status_code = HTTP_OK /\ check[j].status # "COMPLETE")
            /\ pc[j] = "after_poll" =>
                  /\ attempt[j] >= 1
                  /\ clip_ready[j] <=>
                        (check[j].status_code = HTTP_OK /\ check[j].status = "COMPLETE")
                  /\ ~clip_ready[j] => (check[j].status_code # HTTP_OK \/ attempt[j] = 20))
    /\ [][\A j \in Jobs :
            /\ (pc[j] = "poll" /\ attempt'[j] # attempt[j]) => attempt'[j] = attempt[j] + 1
            /\ completed_clips'[j] > completed_clips[j] =>
                  (check[j].status_code = HTTP_OK /\ check[j].status = "COMPLETE")]_vars

\* a poll loop that ended not ready after its 20th query, all of them 200
C16_Witness ==
    \E j \in Jobs :
        /\ pc[j] = "after_poll"
        /\ attempt[j] = 20
        /\ ~clip_ready[j]
        /\ check[j].status_code = HTTP_OK

\* C17: a step that changes the registry entry of a job is a step of that
\* job's own coroutine and leaves every other job's entry and coroutine as
\* they were; get_tts_status and the submission of another job change no
\* existing entry.
C17_EntryChangedByOwnCoroutineOnly ==
    [][\A j \in Jobs :
          registry'[j] # registry[j] =>
              /\ pc'[j] # pc[j]
              /\ queryResult' = <<>>
              /\ DOMAIN registry' = DOMAIN registry
              /\ \A k \in Jobs \ {j} : registry'[k] = registry[k] /\ pc'[k] = pc[k]]_vars

\* two jobs in flight: one already in error, the other still processing
C17_Witness ==
    \E j, k \in Jobs :
        /\ j # k
        /\ registry[j].status = ERROR
        /\ ~Finished(j)
        /\ registry[k].status = PROCESSING
        /\ ~Finished(k)

\* C18: a get_tts_status result for a submitted job never pairs status
\* error with a message that is not an error message, nor status success
\* with a message other than "Saved file to <path>"; the same holds of the
\* registry entries whenever a query can be served.
C18_NoTornStatusMessage ==
    /\ (queryResult # <<>> /\ queryResult[1].known) =>
          /\ queryResult[1].result.status = ERROR =>
                queryResult[1].result.message \in
                    {MsgCreateFailed(ErrorContent), MSG_NOT_READY, MSG_BAD_TYPE}
          /\ queryResult[1].result.status = SUCCESS =>
                queryResult[1].result.message \in
                    {"Saved file to " \o f : f \in OutputFiles}
    /\ Idle =>
          \A j \in Jobs :
              /\ registry[j].status = ERROR =>
                    registry[j].message \in
                        {MsgCreateFailed(ErrorContent), MSG_NOT_READY, MSG_BAD_TYPE}
              /\ registry[j].status = SUCCESS =>
                    registry[j].message \in {"Saved file to " \o f : f \in OutputFiles}

\* a query answered with status error while the job's coroutine is suspended
\* at an await, after it wrote the error
C18_Witness ==
    /\ queryResult # <<>>
    /\ queryResult[1].known
    /\ queryResult[1].result.status = ERROR
    /\ pc[queryResult[1].job_id] \in {"await_info_submitted", "await_progress",
                                      "await_info_completed"}

====
